---- MODULE Spec2Model ----
(***************************************************************************)
(* Model of beeswarm/drones/drone.py: the Drone agent, its two message     *)
(* loops (incoming_server_comms, outgoing_server_comms), the two socket    *)
(* monitors (monitor_worker), the supervised Honeypot/Client greenlet and  *)
(* the linked on_exception escalation.                                     *)
(*                                                                         *)
(* Strings are sequences of atoms.  An atom is either the space SP, one    *)
(* character of a drone id, or a word that contains no space.  Greenlets   *)
(* are cooperative: an action is the code a greenlet runs between two      *)
(* points where it yields (gevent.sleep, a blocking Greenlet.kill).        *)
(***************************************************************************)
EXTENDS Integers, Sequences, FiniteSets, TLC

\* ------------------------------------------------------------------ bounds
\* Messages pushed to SocketNames.SERVER_RELAY in one run.
MaxMsgs == 4
\* CONFIG commands handled in one run.
MaxConfigs == 2
\* Messages pushed to SocketNames.SERVER_COMMANDS in one run.
MaxDispatch == 1
\* Messages waiting on the local pull socket.
MaxLocal == 1
\* EVENT_CONNECTED events of the sending socket in one run.
MaxConnects == 1

\* ------------------------------------------------------------------ strings
SP == " "

\* Messages.*.value (beeswarm/shared/message_enum.py)
Messages_CONFIG == "CONFIG"
Messages_DRONE_DELETE == "DELETE"
Messages_PING == "PING"
Messages_IP == "IP"
Messages_DRONE_WANT_CONFIG == "WANT_CONFIG"

\* Index of the first SP of s, 0 when s holds none.
FirstSpace(s) ==
  IF \E i \in 1..Len(s) : s[i] = SP
    THEN CHOOSE i \in 1..Len(s) : s[i] = SP /\ \A j \in 1..(i - 1) : s[j] # SP
    ELSE 0

\* str.split(' ', maxsplit): the list of pieces.
RECURSIVE split(_, _)
split(s, maxsplit) ==
  IF maxsplit = 0 \/ FirstSpace(s) = 0
    THEN << s >>
    ELSE << SubSeq(s, 1, FirstSpace(s) - 1) >>
           \o split(SubSeq(s, FirstSpace(s) + 1, Len(s)), maxsplit - 1)

\* '{0} {1}'.format(a, b)
format2(a, b) == a \o << SP >> \o b

\* '{0} {1} {2}'.format(a, b, c)
format3(a, b, c) == a \o << SP >> \o b \o << SP >> \o c

\* bytes.startswith: the prefix match of a zmq.SUBSCRIBE filter.
StartsWith(s, p) == Len(p) <= Len(s) /\ SubSeq(s, 1, Len(p)) = p

\* x in s for a word x of the string s.
Contains(s, x) == \E i \in 1..Len(s) : s[i] = x

\* ------------------------------------------------------------------ configuration documents
\* The drone's own id and another drone's id that begins with it.
SelfId == << "1" >>
OtherId == << "1", "0" >>

\* The configuration dictionaries the server can send, by the JSON text of each.
JsonDoc ==
  [ jU |-> [general |-> [id |-> SelfId, mode |-> ""]],
    jH |-> [general |-> [id |-> SelfId, mode |-> "honeypot"]],
    jC |-> [general |-> [id |-> OtherId, mode |-> "client"]] ]

\* JSON text without its insignificant whitespace.
JsonStrip(text) == SelectSeq(text, LAMBDA a : a # SP)

\* Whether json.loads(text, object_hook=asciify) returns rather than raises ValueError.
json_parses(text) == Len(JsonStrip(text)) = 1 /\ JsonStrip(text)[1] \in DOMAIN JsonDoc

\* json.loads(text, object_hook=asciify)
json_loads(text) == JsonDoc[JsonStrip(text)[1]]

\* json.dumps(config, indent=4)
json_dumps(c) == << CHOOSE d \in DOMAIN JsonDoc : JsonDoc[d] = c >>

\* The configuration the drone is constructed with.
InitConfig == JsonDoc.jU

\* The value of a local variable not assigned yet.
Unbound == [general |-> [id |-> << >>, mode |-> "<unbound>"]]

\* No config file written yet.
NoFile == << "<absent>" >>

\* A file opened for writing (truncated) whose write did not happen.
EmptyFile == << >>

\* ------------------------------------------------------------------ messages of the environment
Payloads == { << "jH" >>, << "jH", SP >>, << "jC" >>, << "jU" >>, << "x" >> }

\* Payloads of the commands that are not CONFIG.
CommandPayloads == { << "x", SP, "y" >> }

\* What the server publishes and the SUBSCRIBE filter of line 158 lets through.
Published ==
  { format3(i, << Messages_CONFIG >>, p) : i \in {SelfId, OtherId}, p \in Payloads }
    \cup { format3(i, << c >>, p) : i \in {SelfId, OtherId},
                                   c \in {Messages_DRONE_DELETE, "BCAST"},
                                   p \in CommandPayloads }
    \cup { format2(SelfId, << c >>) : c \in {Messages_CONFIG, Messages_DRONE_DELETE} }
    \cup { format3(<< "2" >>, << Messages_CONFIG >>, << "jH" >>) }

\* What local producers push to the local pull socket.
LocalMsgs == { << "EVT", SP, "x" >> }

\* get_most_likely_ip(): an address or nothing.
Addresses == { << >>, << "10.0.0.5" >> }

\* Addresses of the server's command socket, in pieces: a host name is free text.
PlainUrl == << "tcp://", "server", ":5712" >>
CommandUrls == { PlainUrl, << "tcp://", "outgoing", ".example.org:5712" >> }


\* ------------------------------------------------------------------ state
VARIABLES
  id,               \* self.id
  zmq_command_url,  \* self.config['beeswarm_server']['zmq_command_url'] at line 172
  config,           \* self.config
  config_local,     \* the local variable config of incoming_server_comms (line 196)
  file,             \* text of self.config_file
  config_received,  \* self.config_received.isSet()
  drone,            \* self.drone: 0 for None, else the instance
  drone_greenlet,   \* self.drone_greenlet: 0 for None, else the instance
  workloads,        \* the Honeypot/Client instances spawned so far, with their greenlets
  incoming,         \* incoming_msg_greenlet: "poll", "stop" (inside self.stop()), "dead"
  outgoing,         \* outgoing_msg_greenlet: "poll", "dead"
  stoppers,         \* every running call of self.stop(): where it is suspended
  sleepers,         \* the callers of gevent.sleep(2), in the order their timers fire
  exit_status,      \* NotExited, or << status >> once the process exited
  relayq,           \* messages pushed to SocketNames.SERVER_RELAY, not yet pulled
  sent,             \* messages sent on sending_socket, with the message each came from
  dispatched,       \* messages sent on self.internal_server_relay
  localq,           \* messages waiting on local_receiving_socket
  channel,          \* per socket: whether it is connected
  nconnects,        \* EVENT_CONNECTED events of the sending socket so far
  trace             \* what the incoming greenlet did for the message it handled last

vars == << id, zmq_command_url, config, config_local, file, config_received, drone, drone_greenlet, workloads, incoming,
           outgoing, stoppers, sleepers, exit_status, relayq, sent, dispatched, localq,
           channel, nconnects, trace >>

\* log_name of the two monitor_worker greenlets (lines 173, 227).
OutgoingLogName == << "outgoing", SP, "socket", SP, "(url)." >>
IncomingLogName == << "incomming", SP, "socket", SP, "(" >> \o zmq_command_url \o << ")." >>

\* exit_status while the process runs; << n >> once sys.exit(n) ended it.
NotExited == << >>

\* The caller of self.stop() at line 202, and the on_exception call linked to a greenlet.
REC == << "config", 0 >>
Greenlets == { << "incoming", 0 >>, << "outgoing", 0 >> } \cup { << "drone", w >> : w \in 1..MaxConfigs }
Stoppers == { REC } \cup Greenlets

\* A caller of self.stop(): where it is suspended, the greenlet it waits for, and the
\* callers the hub runs before its timer can fire.
Idle == [pc |-> "none", target |-> 0, after |-> {}]

\* The part of the state the supervision code reads and writes, as one record.
Cur ==
  [ config |-> config, config_local |-> config_local, file |-> file, config_received |-> config_received,
    drone |-> drone, drone_greenlet |-> drone_greenlet, workloads |-> workloads,
    incoming |-> incoming, stoppers |-> stoppers, sleepers |-> sleepers,
    exit_status |-> exit_status, trace |-> trace,
    relayq |-> relayq, dispatched |-> dispatched, localq |-> localq ]

Becomes(st) ==
  /\ config' = st.config
  /\ config_local' = st.config_local
  /\ file' = st.file
  /\ config_received' = st.config_received
  /\ drone' = st.drone
  /\ drone_greenlet' = st.drone_greenlet
  /\ workloads' = st.workloads
  /\ incoming' = st.incoming
  /\ stoppers' = st.stoppers
  /\ sleepers' = st.sleepers
  /\ exit_status' = st.exit_status
  /\ trace' = st.trace
  /\ relayq' = st.relayq
  /\ dispatched' = st.dispatched
  /\ localq' = st.localq

\* The state after __init__ and start(), but for the server's address.
Constructed ==
  /\ id = InitConfig.general.id
  /\ config = InitConfig
  /\ config_local = Unbound
  /\ file = NoFile
  /\ config_received = FALSE
  /\ drone = 0
  /\ drone_greenlet = 0
  /\ workloads = << >>
  /\ incoming = "poll"
  /\ outgoing = "poll"
  /\ stoppers = [s \in Stoppers |-> Idle]
  /\ sleepers = << >>
  /\ exit_status = NotExited
  /\ relayq = << >>
  /\ sent = << >>
  /\ dispatched = << >>
  /\ localq = << >>
  /\ channel = [outgoing |-> FALSE, incoming |-> FALSE]
  /\ nconnects = 0
  /\ trace = << >>

Init == Constructed /\ zmq_command_url = PlainUrl

\* The same with any of the addresses the configuration may name.
InitAnyUrl == Constructed /\ zmq_command_url \in CommandUrls

Running == exit_status = NotExited

\* Room for n more messages on SocketNames.SERVER_RELAY within the bound.
Room(n) == Len(relayq) + Len(sent) + n <= MaxMsgs

\* ------------------------------------------------------------------ supervision
\* What the incoming greenlet did is recorded in st.trace; other callers leave no trace.
Note(st, s, what) == IF s = REC THEN [st EXCEPT !.trace = Append(@, what)] ELSE st

\* Drone._start_drone (lines 106-126)
start_drone(st) ==
  LET loaded == json_loads(st.file)
      mode == IF loaded.general.mode = "" THEN "None"
              ELSE IF loaded.general.mode = "honeypot" THEN "Honeypot"
              ELSE IF loaded.general.mode = "client" THEN "Client"
              ELSE "None"
      w == Len(st.workloads) + 1
      st1 == [st EXCEPT !.config = loaded, !.trace = Append(@, "start")]
  IN IF mode # "None"
       THEN [st1 EXCEPT !.drone = w,
                        !.drone_greenlet = w,
                        !.workloads = Append(@, [mode |-> mode, config |-> loaded, alive |-> TRUE,
                                                 stop_called |-> FALSE, kill_called |-> FALSE,
                                                 linked |-> TRUE]),
                        !.trace = Append(@, "spawn")]
       ELSE st1

\* after_stop with the latch set before _start_drone is called.
after_stop_latch_first(st, s) ==
  IF s = REC
    THEN LET st1 == start_drone([Note(st, s, "stopped") EXCEPT !.config_received = TRUE,
                                                               !.trace = Append(@, "latch")])
         IN [st1 EXCEPT !.incoming = "poll", !.stoppers[s] = Idle]
    ELSE [st EXCEPT !.exit_status = << 1 >>, !.stoppers[s] = [pc |-> "done", target |-> 0, after |-> {}]]

\* What follows self.stop() in its caller: lines 203-204 of incoming_server_comms,
\* line 144 of on_exception.
after_stop(st, s) ==
  IF s = REC
    THEN LET st1 == start_drone(Note(st, s, "stopped"))
         IN [st1 EXCEPT !.config_received = TRUE,
                        !.trace = Append(@, "latch"),
                        !.incoming = "poll",
                        !.stoppers[s] = Idle]
    ELSE [st EXCEPT !.exit_status = << 1 >>, !.stoppers[s] = [pc |-> "done", target |-> 0, after |-> {}]]

\* The hub has k on its list of callbacks to run: a link_exception callback spawned by
\* a death, or a kill() whose greenlet has died.
Ready(st, k) ==
  \/ st.stoppers[k].pc = "spawned"
  \/ /\ st.stoppers[k].pc \in { "kill", "kill5" }
     /\ ~st.workloads[st.stoppers[k].target].alive

\* s is switched to: no timer waits for it any longer.
Ran(st, s) ==
  [st EXCEPT !.stoppers = [k \in Stoppers |-> [st.stoppers[k] EXCEPT !.after = @ \ {s}]]]

\* Drone.stop, lines 136-137: gevent.sleep(2).  The timer is set after the callbacks
\* the hub already has to run, so they run before it fires.
stop_sleep(st, s) ==
  [st EXCEPT !.stoppers[s] = [pc |-> "sleep", target |-> 0,
                              after |-> { k \in Stoppers \ {s} : Ready(st, k) }],
             !.sleepers = Append(@, s)]

\* stop_enter without the unlink of line 132.
stop_enter_keeps_link(st, s) ==
  LET st0 == Note(st, s, "stop")
  IN IF st0.drone # 0
       THEN LET g == st0.drone_greenlet
                st1 == [st0 EXCEPT !.workloads[st0.drone].stop_called = TRUE]
            IN IF st1.workloads[g].alive
                 THEN [st1 EXCEPT !.workloads[g].kill_called = TRUE,
                                  !.stoppers[s] = [pc |-> "kill", target |-> g, after |-> {}]]
                 ELSE stop_sleep([st1 EXCEPT !.drone = 0], s)
       ELSE stop_sleep(st0, s)

\* stop_enter with a kill that does not wait for the greenlet to die.
stop_enter_no_wait(st, s) ==
  LET st0 == Note(st, s, "stop")
  IN IF st0.drone # 0
       THEN LET g == st0.drone_greenlet
            IN stop_sleep([st0 EXCEPT !.workloads[g].linked = FALSE,
                                      !.workloads[st0.drone].stop_called = TRUE,
                                      !.workloads[g].kill_called = TRUE,
                                      !.drone = 0], s)
       ELSE stop_sleep(st0, s)

\* Drone.stop, lines 130-135, up to the first point where the caller is suspended.
\* Greenlet.kill() blocks, without a timeout, until the greenlet is dead; on a dead
\* greenlet it returns at once.
stop_enter(st, s) ==
  LET st0 == Note(st, s, "stop")
  IN IF st0.drone # 0
       THEN LET g == st0.drone_greenlet
                st1 == [st0 EXCEPT !.workloads[g].linked = FALSE,
                                   !.workloads[st0.drone].stop_called = TRUE]
            IN IF st1.workloads[g].alive
                 THEN [st1 EXCEPT !.workloads[g].kill_called = TRUE,
                                  !.stoppers[s] = [pc |-> "kill", target |-> g, after |-> {}]]
                 ELSE stop_sleep([st1 EXCEPT !.drone = 0], s)
       ELSE stop_sleep(st0, s)

\* Drone.stop, line 135 onwards, once the kill() of line 134 returns.
stop_killed(st, s) == stop_sleep([st EXCEPT !.drone = 0], s)

\* Drone.stop, lines 138-139, once the sleep of line 137 is over.  kill(timeout=5)
\* returns at once on a dead greenlet, else after the greenlet died or 5 seconds passed.
stop_wake(st, s) ==
  LET st1 == [st EXCEPT !.sleepers = Tail(@)]
      g == st1.drone_greenlet
  IN IF g # 0 /\ st1.workloads[g].alive
       THEN [st1 EXCEPT !.workloads[g].kill_called = TRUE,
                        !.stoppers[s] = [pc |-> "kill5", target |-> g,
                                         after |-> { k \in Stoppers \ {s} :
                                                       \/ Ready(st1, k)
                                                       \/ st1.stoppers[k].pc \in { "sleep", "kill5" } }]]
       ELSE after_stop(st1, s)

\* Drone.on_exception (lines 141-144), up to the first suspension inside self.stop().
on_exception_enter(st, g) == stop_enter(st, g)

\* A greenlet dies of an exception: its link_exception callback, if still linked, is spawned.
Spawned == [pc |-> "spawned", target |-> 0, after |-> {}]

\* ------------------------------------------------------------------ incoming_server_comms
\* send_zmq_push(SocketNames.SERVER_RELAY.value, msg), and outgoing_proxy.send(msg):
\* msg joins the queue the outgoing greenlet pulls from.  `from` records who pushed it.
push(st, msg, from) == [st EXCEPT !.relayq = Append(@, [msg |-> msg, from |-> from])]

\* An exception leaves incoming_server_comms: the greenlet dies and the on_exception
\* linked at line 101 is spawned.
raise(st, exception) ==
  [st EXCEPT !.incoming = "dead",
             !.stoppers[<< "incoming", 0 >>] = Spawned,
             !.trace = Append(@, exception)]

\* _handle_delete without the self.drone.stop() of line 286.
handle_delete_no_stop(st) ==
  [st EXCEPT !.exit_status = << 0 >>, !.trace = Append(@, "exit")]

\* Drone._handle_delete (lines 284-288)
handle_delete(st) ==
  LET st1 == IF st.drone # 0
               THEN [st EXCEPT !.workloads[st.drone].stop_called = TRUE,
                               !.trace = Append(@, "drone.stop")]
               ELSE st
  IN [st1 EXCEPT !.exit_status = << 0 >>, !.trace = Append(@, "exit")]

\* set_config writing the configuration it replaces.
set_config_writes_old(st, cfg, io) ==
  LET st1 == [st EXCEPT !.config = cfg, !.trace = Append(@, "set")]
  IN IF io = "ok"
       THEN stop_enter([st1 EXCEPT !.file = json_dumps(st.config),
                                   !.trace = Append(@, "write"),
                                   !.incoming = "stop"], REC)
       ELSE IF io = "open fails"
         THEN raise(st1, "IOError")
         ELSE raise([st1 EXCEPT !.file = EmptyFile], "IOError")

\* Lines 197-204: the reconciliation, up to the first suspension inside self.stop().
\* io is what the file system does at lines 200-201.
set_config(st, cfg, io) ==
  LET st1 == [st EXCEPT !.config = cfg, !.trace = Append(@, "set")]
  IN IF io = "ok"
       THEN stop_enter([st1 EXCEPT !.file = json_dumps(cfg),
                                   !.trace = Append(@, "write"),
                                   !.incoming = "stop"], REC)
       ELSE IF io = "open fails"
         THEN raise(st1, "IOError")
         ELSE raise([st1 EXCEPT !.file = EmptyFile], "IOError")

\* command_config with the PING pushed once the payload has been parsed.
command_config_ping_after_loads(st, self_id, data, io) ==
  IF ~json_parses(data)
    THEN raise(st, "ValueError")
    ELSE LET cfg == json_loads(data)
             st2 == [push(st, << Messages_PING >>, << "config", 0 >>)
                       EXCEPT !.config_local = cfg, !.trace = @ \o << "loads", "ping" >>]
         IN IF st2.config # cfg \/ ~st2.config_received
              THEN set_config(st2, cfg, io)
              ELSE st2

\* command_config with the latch left out of the comparison of line 197.
command_config_compare_only(st, self_id, data, io) ==
  LET st1 == [push(st, << Messages_PING >>, << "config", 0 >>) EXCEPT !.trace = Append(@, "ping")]
  IN IF ~json_parses(data)
       THEN raise(st1, "ValueError")
       ELSE LET cfg == json_loads(data)
                st2 == [st1 EXCEPT !.config_local = cfg, !.trace = Append(@, "loads")]
            IN IF st2.config # cfg
                 THEN set_config(st2, cfg, io)
                 ELSE st2

\* command_config with the PING pushed only when the configuration is applied.
command_config_ping_on_change(st, self_id, data, io) ==
  IF ~json_parses(data)
    THEN raise(st, "ValueError")
    ELSE LET cfg == json_loads(data)
             st2 == [st EXCEPT !.config_local = cfg, !.trace = Append(@, "loads")]
         IN IF st2.config # cfg \/ ~st2.config_received
              THEN set_config([push(st2, << Messages_PING >>, << "config", 0 >>)
                                 EXCEPT !.trace = << "ping" >> \o @], cfg, io)
              ELSE st2

\* command_config without the comparison of line 197.
command_config_always(st, self_id, data, io) ==
  LET st1 == [push(st, << Messages_PING >>, << "config", 0 >>) EXCEPT !.trace = Append(@, "ping")]
  IN IF ~json_parses(data)
       THEN raise(st1, "ValueError")
       ELSE set_config([st1 EXCEPT !.config_local = json_loads(data),
                                   !.trace = Append(@, "loads")],
                       json_loads(data), io)

\* Lines 194-204: the CONFIG command.
command_config(st, self_id, data, io) ==
  LET st1 == [push(st, << Messages_PING >>, << "config", 0 >>) EXCEPT !.trace = Append(@, "ping")]
  IN IF ~json_parses(data)
       THEN raise(st1, "ValueError")
       ELSE LET cfg == json_loads(data)
                st2 == [st1 EXCEPT !.config_local = cfg, !.trace = Append(@, "loads")]
            IN IF st2.config # cfg \/ ~st2.config_received
                 THEN set_config(st2, cfg, io)
                 ELSE st2

\* server_message passing the whole message, id included, to the dispatch socket.
server_message_relays_message(st, self_id, message, io) ==
  LET parts == split(message, 2)
  IN IF Len(parts) # 3
       THEN raise(st, "ValueError")
       ELSE LET drone_id == parts[1]
                command == parts[2]
                data == parts[3]
            IN IF drone_id # self_id
                 THEN raise(st, "AssertionError")
                 ELSE IF command = << Messages_CONFIG >>
                   THEN command_config(st, self_id, data, io)
                   ELSE IF command = << Messages_DRONE_DELETE >>
                     THEN handle_delete(st)
                     ELSE [st EXCEPT !.dispatched = Append(@, message),
                                     !.trace = Append(@, "relay")]

\* Lines 186-208: one message of the server.
server_message(st, self_id, message, io) ==
  LET parts == split(message, 2)
  IN IF Len(parts) # 3
       THEN raise(st, "ValueError")
       ELSE LET drone_id == parts[1]
                command == parts[2]
                data == parts[3]
            IN IF drone_id # self_id
                 THEN raise(st, "AssertionError")
                 ELSE IF command = << Messages_CONFIG >>
                   THEN command_config(st, self_id, data, io)
                   ELSE IF command = << Messages_DRONE_DELETE >>
                     THEN handle_delete(st)
                     ELSE [st EXCEPT !.dispatched = Append(@, format2(command, data)),
                                     !.trace = Append(@, "relay")]

\* Lines 209-211: one message of the local pull socket.
local_message(st, self_id) ==
  [push(st, format2(self_id, Head(st.localq)), << "local", 0 >>)
     EXCEPT !.localq = Tail(@), !.trace = Append(@, "proxy")]

\* poller_registered had the local pull socket been registered too.
poller_registered_with_local == { "server", "local" }

\* Lines 176-177: the sockets registered with the poller.
poller_registered == { "server" }

\* What the subscription of line 158 delivers.
Subscribed == { m \in Published : StartsWith(m, id) }

\* CONFIG commands handled so far: each pushed one PING (line 195).
Acks == Len(SelectSeq(relayq \o sent, LAMBDA r : r.from = << "config", 0 >>))

\* Whether handling message starts a reconciliation (line 197).
Reconciles(message) ==
  LET parts == split(message, 2)
  IN /\ Len(parts) = 3
     /\ parts[1] = id
     /\ parts[2] = << Messages_CONFIG >>
     /\ json_parses(parts[3])
     /\ (config # json_loads(parts[3]) \/ ~config_received)

\* Whether handling message stays within the bounds of the model.
WithinBounds(message) ==
  LET parts == split(message, 2)
  IN Len(parts) = 3 /\ parts[1] = id =>
       /\ parts[2] = << Messages_CONFIG >> => Room(1) /\ Acks < MaxConfigs
       /\ parts[2] \notin { << Messages_CONFIG >>, << Messages_DRONE_DELETE >> }
            => Len(dispatched) < MaxDispatch

\* One turn of the loop of lines 179-211 in which a socket is readable; the server
\* sends messages of the set Msgs.
incoming_turn(Msgs) ==
  /\ Running
  /\ incoming = "poll"
  /\ \E arrived \in SUBSET { "server" }, message \in Msgs,
        io \in { "ok", "open fails", "write fails" } :
       LET readable == arrived \cup (IF localq # << >> THEN { "local" } ELSE { })
           socks == readable \cap poller_registered
           fresh == [Cur EXCEPT !.trace = << >>]
       IN /\ readable # { }
          /\ "server" \in socks => WithinBounds(message)
          /\ "server" \notin socks /\ "local" \in socks => Room(1)
          /\ IF "server" \in socks
               THEN Becomes(server_message(fresh, id, message, io))
               ELSE IF "local" \in socks
                 THEN Becomes(local_message(fresh, id))
                 ELSE Becomes(Cur)
  /\ UNCHANGED << id, zmq_command_url, outgoing, sent, channel, nconnects >>

\* The loop of lines 179-211 fed by what the subscription delivers.
incoming_server_comms == incoming_turn(Subscribed)

\* ------------------------------------------------------------------ self.stop() resumed
\* The kill() of line 134 returns: its greenlet is dead.
stop_kill_returns ==
  /\ Running
  /\ \E s \in Stoppers :
       /\ stoppers[s].pc = "kill"
       /\ ~workloads[stoppers[s].target].alive
       /\ Becomes(stop_killed(Ran(Cur, s), s))
  /\ UNCHANGED << id, zmq_command_url, outgoing, sent, channel, nconnects >>

\* The timer of the oldest gevent.sleep(2) fires, the callbacks that were due when it
\* was set having run.
stop_sleep_returns ==
  /\ Running
  /\ sleepers # << >>
  /\ stoppers[Head(sleepers)].after = {}
  /\ Becomes(stop_wake(Ran(Cur, Head(sleepers)), Head(sleepers)))
  /\ UNCHANGED << id, zmq_command_url, outgoing, sent, channel, nconnects >>

\* The kill(timeout=5) of line 139 returns: its greenlet is dead, or 5 seconds passed
\* and with them the timers set before it.
stop_kill_timeout_returns ==
  /\ Running
  /\ \E s \in Stoppers :
       /\ stoppers[s].pc = "kill5"
       /\ ~workloads[stoppers[s].target].alive \/ stoppers[s].after = {}
       /\ Becomes(after_stop(Ran(Cur, s), s))
  /\ UNCHANGED << id, zmq_command_url, outgoing, sent, channel, nconnects >>

\* A spawned on_exception starts to run.
on_exception ==
  /\ Running
  /\ \E g \in Greenlets :
       /\ stoppers[g].pc = "spawned"
       /\ Becomes(on_exception_enter(Ran(Cur, g), g))
  /\ UNCHANGED << id, zmq_command_url, outgoing, sent, channel, nconnects >>

\* ------------------------------------------------------------------ the supervised greenlet
\* self.drone.start returns or the greenlet takes the GreenletExit of a kill: the
\* greenlet is dead and no link_exception callback runs.
drone_exits ==
  /\ Running
  /\ \E w \in 1..Len(workloads) :
       /\ workloads[w].alive
       /\ workloads[w].stop_called \/ workloads[w].kill_called
       /\ workloads' = [workloads EXCEPT ![w].alive = FALSE]
  /\ UNCHANGED << id, zmq_command_url, config, config_local, file, config_received, drone, drone_greenlet, incoming, outgoing,
                  stoppers, sleepers, exit_status, relayq, sent, dispatched, localq, channel,
                  nconnects, trace >>

\* self.drone.start raises: the greenlet is dead and the on_exception linked at line 125,
\* unless unlinked at line 132, is spawned.
drone_raises ==
  /\ Running
  /\ \E w \in 1..Len(workloads) :
       /\ workloads[w].alive
       /\ workloads' = [workloads EXCEPT ![w].alive = FALSE]
       /\ stoppers' = IF workloads[w].linked
                        THEN [stoppers EXCEPT ![<< "drone", w >>] = Spawned]
                        ELSE stoppers
  /\ UNCHANGED << id, zmq_command_url, config, config_local, file, config_received, drone, drone_greenlet, incoming, outgoing,
                  sleepers, exit_status, relayq, sent, dispatched, localq, channel, nconnects,
                  trace >>

\* ------------------------------------------------------------------ outgoing_server_comms
\* inject_id taking the id from the current configuration.
inject_id_from_config(message, self_id) ==
  LET data_split == split(message, 1)
  IN IF Len(data_split) = 1
       THEN format2(data_split[1], config.general.id)
       ELSE format3(data_split[1], config.general.id, data_split[2])

\* Lines 245-252: the drone id injected into a message.
inject_id(message, self_id) ==
  LET data_split == split(message, 1)
  IN IF Len(data_split) = 1
       THEN format2(data_split[1], self_id)
       ELSE format3(data_split[1], self_id, data_split[2])

\* One turn of the loop of lines 237-254 in which the relay socket is readable.
outgoing_server_comms ==
  /\ Running
  /\ outgoing = "poll"
  /\ relayq # << >>
  /\ sent' = Append(sent, [wire |-> inject_id(Head(relayq).msg, id),
                           msg |-> Head(relayq).msg,
                           from |-> Head(relayq).from])
  /\ relayq' = Tail(relayq)
  /\ UNCHANGED << id, zmq_command_url, config, config_local, file, config_received, drone, drone_greenlet, workloads, incoming,
                  outgoing, stoppers, sleepers, exit_status, dispatched, localq, channel,
                  nconnects, trace >>

\* sending_socket.send raises: the greenlet dies and the on_exception linked at line 98
\* is spawned.
outgoing_raises ==
  /\ Running
  /\ outgoing = "poll"
  /\ outgoing' = "dead"
  /\ stoppers' = [stoppers EXCEPT ![<< "outgoing", 0 >>] = Spawned]
  /\ UNCHANGED << id, zmq_command_url, config, config_local, file, config_received, drone, drone_greenlet, workloads, incoming,
                  sleepers, exit_status, relayq, sent, dispatched, localq, channel, nconnects,
                  trace >>

\* ------------------------------------------------------------------ monitor_worker
\* announcements with the PING pushed first.
announcements_ping_first(log_name, own_ip) ==
  IF Contains(log_name, "outgoing")
    THEN << << Messages_PING >>, << Messages_DRONE_WANT_CONFIG >>, format2(<< Messages_IP >>, own_ip) >>
    ELSE << << Messages_DRONE_WANT_CONFIG >> >>

\* Lines 268-279: what an EVENT_CONNECTED pushes, in order.
announcements(log_name, own_ip) ==
  << << Messages_DRONE_WANT_CONFIG >> >>
    \o (IF Contains(log_name, "outgoing")
          THEN << << Messages_PING >>, format2(<< Messages_IP >>, own_ip) >>
          ELSE << >>)

Tagged(msgs, from) == [i \in 1..Len(msgs) |-> [msg |-> msgs[i], from |-> from]]

\* EVENT_CONNECTED on the sending socket.
monitor_outgoing_connected ==
  /\ Running
  /\ ~channel.outgoing
  /\ nconnects < MaxConnects
  /\ \E own_ip \in Addresses :
       /\ Room(Len(announcements(OutgoingLogName, own_ip)))
       /\ relayq' = relayq \o Tagged(announcements(OutgoingLogName, own_ip),
                                     << "outgoing", nconnects + 1 >>)
  /\ channel' = [channel EXCEPT !.outgoing = TRUE]
  /\ nconnects' = nconnects + 1
  /\ UNCHANGED << id, zmq_command_url, config, config_local, file, config_received, drone, drone_greenlet, workloads, incoming,
                  outgoing, stoppers, sleepers, exit_status, sent, dispatched, localq, trace >>

\* EVENT_CONNECTED on the receiving socket.
monitor_incoming_connected ==
  /\ Running
  /\ ~channel.incoming
  /\ \E own_ip \in Addresses :
       /\ Room(Len(announcements(IncomingLogName, own_ip)))
       /\ relayq' = relayq \o Tagged(announcements(IncomingLogName, own_ip),
                                     << "incoming", 0 >>)
  /\ channel' = [channel EXCEPT !.incoming = TRUE]
  /\ UNCHANGED << id, zmq_command_url, config, config_local, file, config_received, drone, drone_greenlet, workloads, incoming,
                  outgoing, stoppers, sleepers, exit_status, sent, dispatched, localq, nconnects,
                  trace >>

\* EVENT_DISCONNECTED on either socket (lines 280-281): a log line.
monitor_disconnected ==
  /\ Running
  /\ \E which \in { "outgoing", "incoming" } :
       /\ channel[which]
       /\ channel' = [channel EXCEPT ![which] = FALSE]
  /\ UNCHANGED << id, zmq_command_url, config, config_local, file, config_received, drone, drone_greenlet, workloads, incoming,
                  outgoing, stoppers, sleepers, exit_status, relayq, sent, dispatched, localq,
                  nconnects, trace >>

\* ------------------------------------------------------------------ local producers
\* A producer pushes to the socket bound at line 163.
local_push ==
  /\ Running
  /\ Len(localq) < MaxLocal
  /\ \E m \in LocalMsgs : localq' = Append(localq, m)
  /\ UNCHANGED << id, zmq_command_url, config, config_local, file, config_received, drone, drone_greenlet, workloads, incoming,
                  outgoing, stoppers, sleepers, exit_status, relayq, sent, dispatched, channel,
                  nconnects, trace >>

\* ------------------------------------------------------------------ specification
Next ==
  \/ incoming_server_comms
  \/ stop_kill_returns
  \/ stop_sleep_returns
  \/ stop_kill_timeout_returns
  \/ on_exception
  \/ drone_exits
  \/ drone_raises
  \/ outgoing_server_comms
  \/ outgoing_raises
  \/ monitor_outgoing_connected
  \/ monitor_incoming_connected
  \/ monitor_disconnected
  \/ local_push

Spec == Init /\ [][Next]_vars

\* The supervision alone: the actions that read or write the configuration, the
\* supervised greenlet and the calls of self.stop().  The actions left out (the relay
\* loop, the monitors, the local producers) write relayq, sent, localq, channel and
\* nconnects only, which no action kept here reads but for the bound Room.
NextSupervise ==
  \/ incoming_server_comms
  \/ stop_kill_returns
  \/ stop_sleep_returns
  \/ stop_kill_timeout_returns
  \/ on_exception
  \/ drone_exits
  \/ drone_raises
  \/ outgoing_raises

SpecSupervise == Init /\ [][NextSupervise]_vars

\* The CONFIG commands for this drone that parse.
ConfigCommands ==
  { m \in Subscribed : /\ Len(split(m, 2)) = 3
                       /\ split(m, 2)[1] = id
                       /\ split(m, 2)[2] = << Messages_CONFIG >>
                       /\ json_parses(split(m, 2)[3]) }

\* The loop of lines 179-211 fed with CONFIG commands only.
incoming_config_commands == incoming_turn(ConfigCommands)

\* The message flow alone, in runs where no greenlet raises: the server sends CONFIG
\* commands, the sockets connect and disconnect, local producers push, the relay
\* loop sends.
NextRelay ==
  \/ incoming_config_commands
  \/ stop_kill_returns
  \/ stop_sleep_returns
  \/ drone_exits
  \/ outgoing_server_comms
  \/ monitor_outgoing_connected
  \/ monitor_incoming_connected
  \/ monitor_disconnected
  \/ local_push

SpecRelay == Init /\ [][NextRelay]_vars

\* The monitors and the relay loop alone, for any address of the command socket.
NextMonitor ==
  \/ monitor_outgoing_connected
  \/ monitor_incoming_connected
  \/ monitor_disconnected
  \/ outgoing_server_comms

SpecMonitor == InitAnyUrl /\ [][NextMonitor]_vars

\* ================================================================== properties
\* The three fields of a server message that has them.
Fields(m) == split(m, 2)
IsCommandFor(m, self_id, command) ==
  Len(Fields(m)) = 3 /\ Fields(m)[1] = self_id /\ Fields(m)[2] = << command >>

\* This step is the incoming greenlet receiving and handling message m.
Handles(m) ==
  /\ Running
  /\ incoming = "poll"
  /\ \E io \in { "ok", "open fails", "write fails" } :
       Becomes(server_message([Cur EXCEPT !.trace = << >>], id, m, io))
  /\ UNCHANGED << id, zmq_command_url, outgoing, sent, channel, nconnects >>

\* The CONFIG commands for this drone whose payload is structurally equal to self.config.
IdenticalConfigs ==
  { format3(SelfId, << Messages_CONFIG >>, p) :
      p \in { q \in Payloads : json_parses(q) /\ json_loads(q) = config } }

Alive == { w \in 1..Len(workloads) : workloads[w].alive }

Last(s) == s[Len(s)]

\* The steps of a reconciliation among what the incoming greenlet did.
ReconciliationSteps(t) ==
  SelectSeq(t, LAMBDA x : x \in { "write", "stop", "stopped", "start", "latch" })

IsPrefix(p, s) == Len(p) <= Len(s) /\ SubSeq(s, 1, Len(p)) = p

\* C1: with the latch set, handling a CONFIG command whose payload is structurally
\* equal to self.config writes no file, stops no workload and starts none, however
\* many such commands came before.
C1_IdenticalConfigNoRestart ==
  [][ \A m \in IdenticalConfigs :
        config_received /\ Handles(m)
          => /\ file' = file
             /\ workloads' = workloads
             /\ drone' = drone
             /\ drone_greenlet' = drone_greenlet
             /\ stoppers' = stoppers
             /\ incoming' = "poll"
             /\ \A x \in { "write", "stop", "start", "spawn" } : ~Contains(trace', x) ]_vars

\* A second CONFIG command equal to the applied one was handled, the workload still runs.
C1_Witness ==
  /\ config_received
  /\ trace = << "ping", "loads" >>
  /\ Acks >= 2
  /\ drone # 0
  /\ workloads[drone].alive
  /\ ~workloads[drone].stop_called

\* C2: when a reconciliation completes, the file holds the new content, self.config
\* equals what the file holds, the workload the mode selects runs and was constructed
\* with the new content, and the instance that ran before is dead.
C2_ReconciliationResult ==
  [][ incoming = "stop" /\ incoming' = "poll"
        => /\ json_parses(file')
           /\ json_loads(file') = config_local'
           /\ config' = json_loads(file')
           /\ config_local'.general.mode \in { "honeypot", "client" }
                => /\ drone' # 0
                   /\ drone' \notin 1..Len(workloads)
                   /\ workloads'[drone'].alive
                   /\ workloads'[drone'].config = config_local'
                   /\ workloads'[drone'].mode =
                        (IF config_local'.general.mode = "honeypot" THEN "Honeypot" ELSE "Client")
           /\ drone_greenlet # 0 => ~workloads'[drone_greenlet].alive ]_vars

\* A second reconciliation completed: the new instance runs, the first is dead.
C2_Witness ==
  /\ incoming = "poll"
  /\ trace # << >>
  /\ Last(trace) = "latch"
  /\ Len(workloads) = 2
  /\ ~workloads[1].alive
  /\ workloads[2].alive
  /\ workloads[2].config = config
  /\ workloads[1].config # config

\* C3: in a reconciliation the file is written, then self.stop() is called, then it
\* returns, then _start_drone is called, then the latch is set: in this order only.
C3_ReconciliationOrder ==
  IsPrefix(ReconciliationSteps(trace), << "write", "stop", "stopped", "start", "latch" >>)

\* A reconciliation ran to its end.
C3_Witness ==
  ReconciliationSteps(trace) = << "write", "stop", "stopped", "start", "latch" >>

\* C6: a message whose first field is not this drone's id changes neither self.config
\* nor the file, leaves the running workload as it is, and puts nothing on the relay
\* or the dispatch socket: neither when it is handled nor by what handling it sets off.
Rejected == trace = << "AssertionError" >>

C6_RejectionLeavesAgent ==
  [][ \/ incoming = "poll" /\ Rejected'
      \/ Rejected /\ stoppers'[<< "incoming", 0 >>] # stoppers[<< "incoming", 0 >>]
        => UNCHANGED << config, file, workloads, drone, relayq, dispatched >> ]_vars

\* C7: at most one supervised greenlet is alive.
C7_AtMostOneWorkload == Cardinality(Alive) <= 1

\* An on_exception that began while a reconciliation slept is killing the workload
\* the reconciliation started since.
C7_Witness ==
  /\ Len(workloads) = 2
  /\ ~workloads[1].alive
  /\ workloads[2].alive
  /\ \E g \in Greenlets : stoppers[g].pc = "kill5" /\ stoppers[g].target = 2

\* The DELETE commands for this drone.
DeleteCommands == { format3(SelfId, << Messages_DRONE_DELETE >>, p) : p \in CommandPayloads }

\* C8: handling a DELETE command ends the process with status 0, every workload
\* alive then has had its stop() called, and nothing is spawned by or after it.
C8_DeleteStopsThenExits ==
  [][ /\ \A m \in DeleteCommands :
           Handles(m) => /\ exit_status' = << 0 >>
                         /\ \A w \in Alive : workloads'[w].stop_called
                         /\ Len(workloads') = Len(workloads)
      /\ ~Running => workloads' = workloads /\ exit_status' = exit_status ]_vars

\* A DELETE arrived with a workload running: stop() was called on it, then exit(0).
C8_Witness ==
  /\ exit_status = << 0 >>
  /\ trace = << "drone.stop", "exit" >>
  /\ drone # 0
  /\ workloads[drone].alive
  /\ workloads[drone].stop_called

\* C10 as stated: handling a CONFIG command equal to the applied one, with the latch
\* set, pushes no PING.
C10_NoPingOnIdenticalConfig ==
  [][ \A m \in IdenticalConfigs : config_received /\ Handles(m) => relayq' = relayq ]_vars

\* C10 amended: handling a CONFIG command equal to the applied one, with the latch set,
\* pushes exactly one message, the PING of line 195.
C10_OnePingOnIdenticalConfig ==
  [][ \A m \in IdenticalConfigs :
        config_received /\ Handles(m)
          => relayq' = Append(relayq, [msg |-> << Messages_PING >>, from |-> << "config", 0 >>]) ]_vars

\* Two CONFIG commands were acknowledged, the second equal to the applied configuration.
C10_Witness ==
  /\ config_received
  /\ trace = << "ping", "loads" >>
  /\ Len(relayq) >= 2
  /\ \A i \in 1..Len(relayq) : relayq[i].msg = << Messages_PING >>

\* ------------------------------------------------------------------ the relay
\* The id the drone was constructed with.
ConstructedId == InitConfig.general.id

\* TOPIC ID, or TOPIC ID P with P all that follows the first space.
Stamped(m) ==
  IF FirstSpace(m) = 0
    THEN m \o << SP >> \o ConstructedId
    ELSE SubSeq(m, 1, FirstSpace(m) - 1) \o << SP >> \o ConstructedId \o << SP >>
           \o SubSeq(m, FirstSpace(m) + 1, Len(m))

\* C4: every message sent is the message pulled with the constructed id after its
\* topic, whatever configuration has been applied.
C4_IdentityStamping ==
  \A i \in 1..Len(sent) : sent[i].wire = Stamped(sent[i].msg)

\* The PING of a CONFIG command handled after a configuration with another id was
\* applied has been sent.
C4_Witness ==
  /\ config.general.id # ConstructedId
  /\ trace = << "ping", "loads" >>
  /\ relayq = << >>
  /\ sent # << >>
  /\ Last(sent).from = << "config", 0 >>
  /\ Last(sent).wire = << Messages_PING, SP >> \o ConstructedId

\* How many space-separated fields of m are the constructed id.
IdFields(m) ==
  LET f == split(m, Len(m)) IN Cardinality({ j \in 1..Len(f) : f[j] = ConstructedId })

Stream ==
  [i \in 1..Len(sent) |-> [msg |-> sent[i].msg, from |-> sent[i].from]] \o relayq

\* What the k-th EVENT_CONNECTED of the sending socket pushed.
FromConnect(k) == SelectSeq(Stream, LAMBDA r : r.from = << "outgoing", k >>)

\* What has been sent of it.
SentFromConnect(k) == SelectSeq(sent, LAMBDA r : r.from = << "outgoing", k >>)

\* C9: each EVENT_CONNECTED of the sending socket puts exactly three messages on the
\* way to the server, WANT_CONFIG, PING and IP with the address (possibly empty), in
\* that order, and they are sent as WANT_CONFIG id, PING id and IP id address.
C9_ConnectAnnouncements ==
  /\ \A r \in { Stream[i] : i \in 1..Len(Stream) } :
       r.from[1] = "outgoing" => r.from[2] \in 1..nconnects
  /\ \A k \in 1..nconnects :
       \E a \in Addresses :
         /\ [i \in 1..Len(FromConnect(k)) |-> FromConnect(k)[i].msg]
              = << << "WANT_CONFIG" >>, << "PING" >>, << "IP", SP >> \o a >>
         /\ IsPrefix([i \in 1..Len(SentFromConnect(k)) |-> SentFromConnect(k)[i].wire],
                     << << "WANT_CONFIG", SP >> \o ConstructedId,
                        << "PING", SP >> \o ConstructedId,
                        << "IP", SP >> \o ConstructedId \o << SP >> \o a >>)

\* The three announcements of a connect were sent, the address being unresolved.
C9_Witness ==
  /\ nconnects = 1
  /\ Len(SentFromConnect(1)) = 3
  /\ SentFromConnect(1)[3].wire = << "IP", SP >> \o ConstructedId \o << SP >>

\* ------------------------------------------------------------------ C11..C20
\* The three-field CONFIG commands for this drone, whatever their payload.
ConfigCommandsForSelf == { format3(SelfId, << Messages_CONFIG >>, p) : p \in Payloads }

\* C11: handling a CONFIG command for this drone pushes exactly one PING, and the push
\* is the first thing the handling does: before json.loads, before the file is
\* written, before any stop or start.
C11_PingBeforeAnythingElse ==
  [][ \A m \in ConfigCommandsForSelf :
        Handles(m)
          => /\ relayq' = Append(relayq, [msg |-> << Messages_PING >>, from |-> << "config", 0 >>])
             /\ trace' # << >>
             /\ Head(trace') = "ping"
             /\ ~Contains(Tail(trace'), "ping") ]_vars

\* A reconciliation ran to its end and the PING was the first thing done for its command.
C11_Witness ==
  /\ Len(trace) >= 6
  /\ Head(trace) = "ping"
  /\ trace[2] = "loads"
  /\ Contains(trace, "write")
  /\ Last(trace) = "latch"
  /\ relayq # << >>
  /\ Last(relayq).msg = << Messages_PING >>

\* The messages that break the protocol: fewer than three fields, another drone's id,
\* or a CONFIG payload that is not JSON.
Violations ==
  { m \in Subscribed : \/ Len(Fields(m)) # 3
                       \/ Fields(m)[1] # id
                       \/ Fields(m)[2] = << Messages_CONFIG >> /\ ~json_parses(Fields(m)[3]) }

\* C12: a message that breaks the protocol is dropped: the incoming greenlet goes on
\* polling, no on_exception is spawned and the process has not exited.
C12_ViolationDiscarded ==
  [][ \A m \in Violations :
        Handles(m) => /\ incoming' = "poll"
                      /\ stoppers' = stoppers
                      /\ exit_status' = NotExited ]_vars

\* The CONFIG commands for this drone whose payload parses.
ParsingConfigs ==
  { format3(SelfId, << Messages_CONFIG >>, p) : p \in { q \in Payloads : json_parses(q) } }

\* C13: while the latch is unset no workload has been spawned; a CONFIG command handled
\* then enters the reconciliation whatever its payload (it writes the file and calls
\* stop(), or dies of the failed write); and the latch is set only at the end of a
\* reconciliation that wrote, stopped and started.
C13_FirstConfigReconciles ==
  [][ /\ ~config_received => workloads = << >>
      /\ ~config_received' => workloads' = << >>
      /\ \A m \in ParsingConfigs :
           ~config_received /\ Handles(m)
             => /\ config' = json_loads(Fields(m)[3])
                /\ \/ /\ incoming' = "stop"
                      /\ file' = json_dumps(json_loads(Fields(m)[3]))
                      /\ ReconciliationSteps(trace') = << "write", "stop" >>
                   \/ incoming' = "dead" /\ Last(trace') = "IOError"
      /\ ~config_received /\ config_received'
           => ReconciliationSteps(trace') = << "write", "stop", "stopped", "start", "latch" >> ]_vars

\* The first CONFIG command carried the configuration the drone was constructed with
\* and was reconciled all the same.
C13_Witness ==
  /\ config_received
  /\ Acks = 1
  /\ config = InitConfig
  /\ file = json_dumps(InitConfig)
  /\ ReconciliationSteps(trace) = << "write", "stop", "stopped", "start", "latch" >>

\* The incoming greenlet receives the oldest local message and forwards it to the relay
\* as AGENT_ID PAYLOAD.
ForwardsLocal ==
  /\ incoming_server_comms
  /\ localq' = Tail(localq)
  /\ relayq' = Append(relayq, [msg |-> format2(id, Head(localq)), from |-> << "local", 0 >>])

\* C14: a message on the local queue gets received and forwarded: whenever one waits
\* while the incoming greenlet polls, a turn of its loop can forward it.
C14_LocalMessageForwarded ==
  Running /\ incoming = "poll" /\ localq # << >> /\ Room(1) => ENABLED ForwardsLocal

\* The commands for this drone that are neither CONFIG nor DELETE.
PassThroughCommands == { format3(SelfId, << "BCAST" >>, p) : p \in CommandPayloads }

\* C15: handling a command for this drone that is neither CONFIG nor DELETE sends all
\* that follows the id and its space to the dispatch socket, and changes neither
\* self.config, the file, the latch, the workload nor the relay queue.
C15_PassThrough ==
  [][ \A m \in PassThroughCommands :
        Handles(m)
          => /\ dispatched' = Append(dispatched, SubSeq(m, Len(SelfId) + 2, Len(m)))
             /\ incoming' = "poll"
             /\ UNCHANGED << config, file, config_received, workloads, drone, drone_greenlet,
                             stoppers, sleepers, relayq, exit_status >> ]_vars

\* A command was passed through while a workload runs.
C15_Witness ==
  /\ trace = << "relay" >>
  /\ dispatched = << << "BCAST", SP, "x", SP, "y" >> >>
  /\ config_received
  /\ drone # 0
  /\ workloads[drone].alive
  /\ ~workloads[drone].stop_called

\* The on_exception of a workload that raised is inside self.stop().
Terminating ==
  \E w \in 1..Len(workloads) : stoppers[<< "drone", w >>].pc \in { "kill", "sleep", "kill5" }

\* C16: once the on_exception of a faulted workload runs, no workload is spawned, no
\* CONFIG command is handled, and the process exits with status 1 only.
C16_FaultIsFinal ==
  [][ Terminating
        => /\ Len(workloads') = Len(workloads)
           /\ \A m \in ConfigCommandsForSelf : ~Handles(m)
           /\ exit_status' # NotExited => exit_status' = << 1 >> ]_vars

\* A call of self.stop() is under way.
Stopping == \E s \in Stoppers : stoppers[s].pc \in { "kill", "sleep", "kill5" }

\* A step that the callers of self.stop() take by themselves: a kill() returns, a sleep
\* ends, a spawned on_exception starts.
StopProceeds ==
  stop_kill_returns \/ stop_sleep_returns \/ stop_kill_timeout_returns \/ on_exception

\* C18: stop() kills the greenlet only once the grace sleep is over, and while a call
\* of stop() is under way some call can take its next step whether or not the workload
\* ever dies.
C18_StopCompletes ==
  [][ /\ \A w \in 1..Len(workloads) :
           ~workloads[w].kill_called /\ workloads'[w].kill_called
             => sleepers # << >> /\ sleepers' = Tail(sleepers)
      /\ Running /\ Stopping => ENABLED StopProceeds ]_vars

\* The incoming greenlet died of the open() or write() of lines 200-201.
WriteFailed == incoming = "dead" /\ trace # << >> /\ Last(trace) = "IOError"

\* C17: when the write of a reconciliation fails, that step and every later one spawn
\* no workload and leave the latch as it was, the process exits with status 1 only and
\* only with the workload stopped or killed, and until it has exited the on_exception
\* that stops the workload can take its next step.
C17_WriteFailureIsFatal ==
  [][ WriteFailed'
        => /\ Len(workloads') = Len(workloads)
           /\ config_received' = config_received
           /\ exit_status' # NotExited
                => /\ exit_status' = << 1 >>
                   /\ \A w \in Alive' : workloads'[w].stop_called \/ workloads'[w].kill_called
           /\ exit_status' = NotExited => (ENABLED StopProceeds)' ]_vars

\* C19: an EVENT_CONNECTED of the receiving socket pushes WANT_CONFIG and nothing
\* else; an EVENT_DISCONNECTED of either socket pushes nothing.
C19_InboundConnectAndDisconnect ==
  [][ /\ ~channel.incoming /\ channel'.incoming
           => relayq' = Append(relayq, [msg |-> << "WANT_CONFIG" >>, from |-> << "incoming", 0 >>])
      /\ (\E which \in { "outgoing", "incoming" } : channel[which] /\ ~channel'[which])
           => relayq' = relayq ]_vars

\* No greenlet has raised with its on_exception linked.
NoFault ==
  /\ incoming # "dead"
  /\ outgoing # "dead"
  /\ \A g \in Greenlets : stoppers[g].pc = "none"

\* C20: once stop() was called on a workload whose on_exception had not been spawned,
\* it is never spawned, however the greenlet ends; and as long as no greenlet raised
\* with its on_exception linked the process has not exited with status 1.
C20_ReconciliationDoesNotEscalate ==
  [][ /\ \A w \in 1..Len(workloads) :
           workloads[w].stop_called /\ stoppers[<< "drone", w >>].pc = "none"
             => stoppers'[<< "drone", w >>].pc = "none"
      /\ NoFault' => exit_status' # << 1 >> ]_vars

\* Two reconciliations ran, the second stopped the workload of the first, and the
\* drone runs on with no on_exception spawned.
C20_Witness ==
  /\ NoFault
  /\ Running
  /\ incoming = "poll"
  /\ Len(workloads) = 2
  /\ workloads[1].stop_called
  /\ workloads[1].kill_called
  /\ ~workloads[1].linked
  /\ ~workloads[1].alive
  /\ drone = 2
  /\ workloads[2].linked

====
